---- MODULE Spec2Model ----
(***************************************************************************)
(* Model of tools.py (efm32-rs/gen-tools): the asyncio pipelines behind     *)
(* the `pacs-gen`, `test` and `publish` sub-commands.                        *)
(*                                                                          *)
(* Scheduling model: one asyncio event loop.  A coroutine runs without      *)
(* interruption from one suspension point to the next, so every action      *)
(* below is one such synchronous segment.  The segment that enumerates the  *)
(* description files is cut into one action per loop iteration; no task can *)
(* run while it is in progress (main_pc # "gather").                         *)
(*                                                                          *)
(* Strings are sequences of one-character strings; Code gives the code      *)
(* point, which is what str comparison, str.lower and the regular           *)
(* expressions of the program work on.                                      *)
(***************************************************************************)
EXTENDS Integers, Sequences, FiniteSets, TLC

\* ---------------------------------------------------------------- bounds
MaxCpu == 2
MaxRuns == 2

\* ---------------------------------------------------------------- strings
Code ==
  [c \in {"-", ".", "/", "1", "2", "3", "4", "6", "B", "C", "E", "F", "G", "M",
          "a", "b", "d", "e", "f", "g", "l", "m", "o", "r", "s", "t", "v", "x"} |->
     CASE c = "-" -> 45 [] c = "." -> 46 [] c = "/" -> 47
       [] c = "1" -> 49 [] c = "2" -> 50 [] c = "3" -> 51 [] c = "4" -> 52
       [] c = "6" -> 54
       [] c = "B" -> 66 [] c = "C" -> 67 [] c = "E" -> 69 [] c = "F" -> 70 [] c = "G" -> 71 [] c = "M" -> 77
       [] c = "a" -> 97 [] c = "b" -> 98 [] c = "d" -> 100 [] c = "e" -> 101
       [] c = "f" -> 102 [] c = "g" -> 103 [] c = "l" -> 108 [] c = "m" -> 109
       [] c = "o" -> 111 [] c = "r" -> 114
       [] c = "s" -> 115 [] c = "t" -> 116 [] c = "v" -> 118 [] c = "x" -> 120]

Alphabet == DOMAIN Code

IsDigit(c) == Code[c] >= 48 /\ Code[c] <= 57

IsUpper(c) == Code[c] >= 65 /\ Code[c] <= 90

IsLetter(c) == IsUpper(c) \/ (Code[c] >= 97 /\ Code[c] <= 122)

\* str.lower on one character
LowerChar(c) ==
  IF IsUpper(c) THEN CHOOSE d \in Alphabet : Code[d] = Code[c] + 32 ELSE c

\* str.lower
Lower(s) == [i \in 1..Len(s) |-> LowerChar(s[i])]

\* s.startswith(p)
StartsWith(s, p) == Len(p) <= Len(s) /\ SubSeq(s, 1, Len(p)) = p

\* s.endswith(p)
EndsWith(s, p) ==
  Len(p) <= Len(s) /\ SubSeq(s, Len(s) - Len(p) + 1, Len(s)) = p

\* `p in s` on strings
Contains(s, p) ==
  \E i \in 0..(Len(s) - Len(p)) : SubSeq(s, i + 1, i + Len(p)) = p

\* StrLess with the prefix rule reversed: a proper prefix sorts last
StrLess_prefix_last(s, t) ==
  \E i \in 1..(Len(s)) :
    /\ i - 1 <= Len(t)
    /\ SubSeq(s, 1, i - 1) = SubSeq(t, 1, i - 1)
    /\ \/ Len(t) = i - 1
       \/ Len(t) >= i /\ Code[s[i]] < Code[t[i]]

\* s < t on str: first differing code point decides, a proper prefix is less
StrLess(s, t) ==
  \E i \in 1..(Len(t)) :
    /\ i - 1 <= Len(s)
    /\ SubSeq(s, 1, i - 1) = SubSeq(t, 1, i - 1)
    /\ \/ Len(s) = i - 1
       \/ Len(s) >= i /\ Code[s[i]] < Code[t[i]]

\* sorted(set of str): repeatedly take the least element
RECURSIVE sorted(_)
sorted(S) ==
  IF S = {} THEN <<>>
  ELSE LET m == CHOOSE x \in S : \A y \in S \ {x} : StrLess(x, y)
       IN <<m>> \o sorted(S \ {m})

\* positions where the pattern f\d+ can start
FDigitStarts(s) ==
  {i \in 1..(Len(s) - 1) : s[i] = "f" /\ IsDigit(s[i + 1])}

\* generic_name with the pattern \d+.*$ (the leading f lost)
generic_name_any_digit(stem) ==
  LET s == Lower(stem)
      m == {i \in 1..Len(s) : IsDigit(s[i])}
  IN IF m = {} THEN s
     ELSE SubSeq(s, 1, (CHOOSE i \in m : \A j \in m : i <= j) - 1)

\* generic_name with the pattern applied to the stem as it is on disk
generic_name_no_lower(stem) ==
  LET m == FDigitStarts(stem)
  IN IF m = {} THEN Lower(stem)
     ELSE Lower(SubSeq(stem, 1, (CHOOSE i \in m : \A j \in m : i <= j) - 1))

\* re.sub(r"f\d+.*$", "", s): the leftmost match runs to the end of s
generic_name(stem) ==
  LET s == Lower(stem)
      m == FDigitStarts(s)
  IN IF m = {} THEN s
     ELSE SubSeq(s, 1, (CHOOSE i \in m : \A j \in m : i <= j) - 1)

\* svd_file.stem.lower()
full_name(stem) == Lower(stem)

\* re.match(r"efm32[a-zA-Z]+", mcu_repr) is not None
get_mcu_family_ok(mcu_repr) ==
  /\ StartsWith(mcu_repr, <<"e", "f", "m", "3", "2">>)
  /\ Len(mcu_repr) >= 6
  /\ IsLetter(mcu_repr[6])


\* ---------------------------------------------------------------- input
\* A directory tree handed to `pacs-gen --svd-dir`: the entries of svd_dir in
\* iterdir order; a family is a sub-directory, `entries` its files in iterdir
\* order, `patches` the stems of the *.yaml files of its patch/ directory.
Entry(stem, suffix) == [stem |-> stem, suffix |-> suffix]

DotSvd == <<".", "s", "v", "d">>

Svd(stem) == Entry(stem, DotSvd)

Family(name, entries, patches) ==
  [name |-> name, is_dir |-> TRUE, entries |-> entries, patches |-> patches]

PlainFile(name) ==
  [name |-> name, is_dir |-> FALSE, entries |-> <<>>, patches |-> {}]

\* all enumeration orders of a set of entries
Orders(S) ==
  {q \in [1..Cardinality(S) -> S] : \A i, j \in 1..Cardinality(S) : q[i] = q[j] => i = j}

efm32g == <<"e", "f", "m", "3", "2", "g">>
efm32gg == <<"e", "f", "m", "3", "2", "g", "g">>
efm32ga == <<"e", "f", "m", "3", "2", "g", "a">>
efm32gb == <<"e", "f", "m", "3", "2", "g", "b">>
efm32gm == <<"e", "f", "m", "3", "2", "g", "m">>
efm32gg_f32 == <<"e", "f", "m", "3", "2", "g", "g", "-", "f", "3", "2">>
efm32gg_f64 == <<"e", "f", "m", "3", "2", "g", "g", "-", "f", "6", "4">>
efm32gg11b_f32 == <<"e", "f", "m", "3", "2", "g", "g", "1", "1", "b", "-", "f", "3", "2">>

\* device groups a, a1, b
AbcFiles == {Svd(<<"a", "f", "3", "2">>), Svd(<<"a", "1", "F", "6", "4">>),
             Svd(<<"b", "f", "1">>)}

\* the three description files of family efm32gg
GgFiles == {Svd(efm32gg_f32), Svd(efm32gg_f64), Svd(efm32gg11b_f32)}

\* two families, upper-case names, a patch, a non-svd file, a plain file in
\* svd_dir, and a family directory whose name is not an efm32 name
MixedTree ==
  << Family(<<"E", "F", "M", "3", "2", "G", "G">>,
            << Svd(<<"E", "F", "M", "3", "2", "G", "G", "1", "1", "B", "F", "6", "4">>),
               Entry(<<"r">>, <<".", "t", "x", "t">>),
               Svd(<<"e", "f", "m", "3", "2", "g", "g", "1", "1", "b", "f", "3", "2">>) >>,
            {<<"E", "F", "M", "3", "2", "G", "G", "1", "1", "b">>}),
     PlainFile(<<"r">>),
     Family(<<"x">>, << Svd(<<"x", "f", "1">>) >>, {}) >>

\* longest stem of the enumerated file names
MaxStem == 3

\* characters of the enumerated stems: a letter, the f of the memory-size
\* part in both cases, a digit
StemChars == {"a", "f", "F", "1"}

\* every stem of 1..MaxStem characters
Stems == UNION {[1..n -> StemChars] : n \in 1..MaxStem}

\* a family directory holding one description file, for every stem
StemDirs == {<<Family(efm32g, <<Svd(s)>>, {})>> : s \in Stems}

\* a family directory with two description files whose stems differ in case
\* only and a third one of the same group
CaseTree ==
  <<Family(efm32g, <<Svd(<<"a", "F", "1">>), Svd(<<"a", "f", "1">>),
                     Svd(<<"a", "f", "1", "1">>)>>, {})>>

SvdDirs ==
  {<<Family(efm32g, q, {})>> : q \in Orders(AbcFiles)}
  \cup {<<Family(efm32gg, q, {})>> : q \in Orders(GgFiles)}
  \cup {MixedTree}
  \cup StemDirs
  \cup {CaseTree}

\* high-level families that mcu.toml describes
McuToml == {efm32g, efm32gg, efm32ga, efm32gb}

\* get_mcu_family: the match of efm32[a-zA-Z]+ at the start of mcu_repr
get_mcu_family(mcu_repr) ==
  LET stop == {i \in 6..Len(mcu_repr) : ~IsLetter(mcu_repr[i])}
      last == IF stop = {} THEN Len(mcu_repr)
              ELSE (CHOOSE i \in stop : \A j \in stop : i <= j) - 1
  IN SubSeq(mcu_repr, 1, last)

None == <<"None">>

\* ---------------------------------------------------------------- state
VARIABLES
  command,      \* sub-command chosen in main()
  cpu_count,    \* multiprocessing.cpu_count(), the initial value of CRATE_GEN_SEM
  svd_dir,      \* the input tree
  run,          \* number of the current invocation of the tool on this output tree
  main_pc,      \* position of run_pacs_generation / generate_mcu_family_crates
  fam_i,        \* next entry of svd_dir to enumerate
  ent_i,        \* next entry of the current family to enumerate
  mcu_group,    \* set of generic names of the current family
  mcu_list,     \* generic name -> list of full names, current family
  meta,         \* list of PacMeta
  tasks,        \* created generate_pac_crate tasks, in creation order
  pc,           \* position of each task
  gate,         \* outcome of the out_dir check of each task
  sem,          \* CRATE_GEN_SEM._value
  scratch,      \* tasks whose TemporaryDirectory exists
  spawned,      \* external processes started in this run: <<task, tool>>
  mkdirs,       \* out_dir.mkdir calls of this run: <<task, out_dir>>
  out_tree,     \* out_dir -> content, for every existing device-group directory
  generic_rs,   \* pac_family -> task that moved generic.rs into <family>/src
  written,      \* families handed to _write_crate_lib_rs, in call order
  readme,       \* _write_repo_readme was called
  gen_ok,       \* generate_mcu_family_crates returned its metadata in this run
  prev_gen_ok,  \* ... in the previous run
  snapshot,     \* out_tree at the end of the previous run
  failed_dirs,  \* out_dirs whose task raised in an earlier run on this output tree
  moved,        \* generic.rs moves of this run: <<task, pac_family>>
  exited        \* external processes of this run that were awaited to their end: <<task, tool, returncode>>

gen_vars == <<command, cpu_count, svd_dir, run, main_pc, fam_i, ent_i, mcu_group,
              mcu_list, meta, tasks, pc, gate, sem, scratch, spawned, mkdirs,
              out_tree, generic_rs, written, readme, gen_ok,
              prev_gen_ok, snapshot, failed_dirs, moved, exited>>

VARIABLES
  pacs_dir,     \* `test`/`publish`: package directory names in rglob("Cargo.toml") order
  exclude,      \* `test`/`publish`: the --exclude strings
  t_main,       \* position of run_pacs_test
  t_tasks,      \* created _cargo_check tasks: index into pacs_dir, in creation order
  t_pc,         \* position of each _cargo_check task
  t_feat,       \* per task: index of the current device feature
  t_log         \* per task: the external processes started and their exit statuses, in order

test_vars == <<pacs_dir, exclude, t_main, t_tasks, t_pc, t_feat, t_log>>

VARIABLES
  is_dry_run,   \* `publish`: args.dry_run
  p_i,          \* index into pacs_dir of the loop of run_publish
  p_pc,         \* position of run_publish / _publish_crate
  p_log         \* external processes started, their exit statuses, delays begun, in order

pub_vars == <<is_dry_run, p_i, p_pc, p_log>>


Tasks == 1..Len(tasks)

\* out_dir of generate_pac_crate: <pacs_dir>/<pac_family>/src/<generic_name>
out_dir(task) == <<task.family, task.svd.generic_name>>

EmptyDir == [files |-> {}, src |-> None, fmt |-> FALSE]

Finished == {"done", "failed", "cancelled"}

InProcess == {"svdtools", "svd2rust", "form", "rustfmt"}


\* ---------------------------------------------------------------- pacs-gen
GenInit ==
  /\ cpu_count \in 1..MaxCpu
  /\ svd_dir \in SvdDirs
  /\ run = 1
  /\ main_pc = "version"
  /\ fam_i = 1
  /\ ent_i = 1
  /\ mcu_group = {}
  /\ mcu_list = <<>>
  /\ meta = <<>>
  /\ tasks = <<>>
  /\ pc = <<>>
  /\ gate = <<>>
  /\ sem = cpu_count
  /\ scratch = {}
  /\ spawned = {}
  /\ mkdirs = {}
  /\ out_tree = <<>>
  /\ generic_rs = <<>>
  /\ written = <<>>
  /\ readme = FALSE
  /\ gen_ok = FALSE
  /\ prev_gen_ok = FALSE
  /\ snapshot = <<>>
  /\ failed_dirs = {}
  /\ moved = {}
  /\ exited = {}

\* run_pacs_generation, first statement: subprocess.run(["svd2rust",
\* "--version"], check=True) raises on a non-zero exit
SvdVersion ==
  /\ command = "pacs-gen"
  /\ main_pc = "version"
  /\ \E rc \in {0, 1} : main_pc' = IF rc = 0 THEN "enumerate" ELSE "aborted"
  /\ UNCHANGED <<test_vars, pub_vars, command, cpu_count, svd_dir, run, fam_i, ent_i, mcu_group,
                 mcu_list, meta, tasks, pc, gate, sem, scratch, spawned, mkdirs,
                 out_tree, generic_rs, written, readme, gen_ok, prev_gen_ok,
                 snapshot, failed_dirs, moved, exited>>

\* next(patch for patch in patches if generic_name == patch.stem.lower(), None)
group_patch(patches, generic) ==
  LET hits == {p \in patches : Lower(p) = generic}
  IN IF hits = {} THEN None ELSE CHOOSE p \in hits : TRUE

\* ListAppend keyed by the full name instead of the generic name
ListAppend_by_full_name(lists, generic, full) ==
  [g \in DOMAIN lists \cup {full} |->
     IF g = full
     THEN (IF g \in DOMAIN lists THEN lists[g] ELSE <<>>) \o <<full>>
     ELSE lists[g]]

\* ListAppend that leaves out a name the list already has
ListAppend_unique(lists, generic, full) ==
  [g \in DOMAIN lists \cup {generic} |->
     IF g = generic
     THEN (IF g \in DOMAIN lists
           THEN (IF \E k \in 1..Len(lists[g]) : lists[g][k] = full
                 THEN lists[g] ELSE lists[g] \o <<full>>)
           ELSE <<full>>)
     ELSE lists[g]]

\* mcu_list[generic].append(full) on a defaultdict(list)
ListAppend(lists, generic, full) ==
  [g \in DOMAIN lists \cup {generic} |->
     IF g = generic
     THEN (IF g \in DOMAIN lists THEN lists[g] ELSE <<>>) \o <<full>>
     ELSE lists[g]]

\* one iteration of `for p in svd_dir.iterdir()` for an entry that is no directory
SkipNonDir ==
  /\ main_pc = "enumerate"
  /\ fam_i <= Len(svd_dir)
  /\ ~svd_dir[fam_i].is_dir
  /\ fam_i' = fam_i + 1
  /\ UNCHANGED <<test_vars, pub_vars, command, cpu_count, svd_dir, run, main_pc, ent_i, mcu_group,
                 mcu_list, meta, tasks, pc, gate, sem, scratch, spawned, mkdirs,
                 out_tree, generic_rs, written, readme, gen_ok, prev_gen_ok,
                 snapshot, failed_dirs, moved, exited>>

\* one iteration of `for svd_file in walk_svd_files(p)`
EnumerateEntry ==
  /\ main_pc = "enumerate"
  /\ fam_i <= Len(svd_dir)
  /\ svd_dir[fam_i].is_dir
  /\ ent_i <= Len(svd_dir[fam_i].entries)
  /\ LET fam == svd_dir[fam_i]
         e == fam.entries[ent_i]
         svd_file == [generic_name |-> generic_name(e.stem),
                      full_name |-> full_name(e.stem),
                      path |-> e.stem]
     IN IF EndsWith(e.suffix, <<"s", "v", "d">>)
        THEN /\ mcu_group' = mcu_group \cup {svd_file.generic_name}
             /\ mcu_list' = ListAppend(mcu_list, svd_file.generic_name,
                                       svd_file.full_name)
             /\ tasks' = Append(tasks,
                                [family |-> Lower(fam.name),
                                 svd |-> svd_file,
                                 patch |-> group_patch(fam.patches,
                                                       svd_file.generic_name)])
             /\ pc' = Append(pc, "start")
             /\ gate' = Append(gate, "none")
        ELSE UNCHANGED <<mcu_group, mcu_list, tasks, pc, gate>>
  /\ ent_i' = ent_i + 1
  /\ UNCHANGED <<test_vars, pub_vars, command, cpu_count, svd_dir, run, main_pc, fam_i, meta, sem,
                 scratch, spawned, mkdirs, out_tree, generic_rs, written, readme,
                 gen_ok, prev_gen_ok, snapshot, failed_dirs, moved, exited>>

\* meta.append(PacMeta(family, sorted(mcu_group), mcu_list)) at the end of
\* the body of the family loop
FinalizeFamily ==
  /\ main_pc = "enumerate"
  /\ fam_i <= Len(svd_dir)
  /\ svd_dir[fam_i].is_dir
  /\ ent_i > Len(svd_dir[fam_i].entries)
  /\ meta' = Append(meta, [family |-> Lower(svd_dir[fam_i].name),
                           supported_mcus |-> sorted(mcu_group),
                           supported_mcus_full |-> mcu_list])
  /\ fam_i' = fam_i + 1
  /\ ent_i' = 1
  /\ mcu_group' = {}
  /\ mcu_list' = <<>>
  /\ UNCHANGED <<test_vars, pub_vars, command, cpu_count, svd_dir, run, main_pc, tasks, pc, gate, sem,
                 scratch, spawned, mkdirs, out_tree, generic_rs, written, readme,
                 gen_ok, prev_gen_ok, snapshot, failed_dirs, moved, exited>>

\* `await asyncio.gather(*tasks)`: the main coroutine suspends
AwaitGather ==
  /\ main_pc = "enumerate"
  /\ fam_i > Len(svd_dir)
  /\ main_pc' = "gather"
  /\ UNCHANGED <<test_vars, pub_vars, command, cpu_count, svd_dir, run, fam_i, ent_i, mcu_group,
                 mcu_list, meta, tasks, pc, gate, sem, scratch, spawned, mkdirs,
                 out_tree, generic_rs, written, readme, gen_ok, prev_gen_ok,
                 snapshot, failed_dirs, moved, exited>>


\* ---------------------------------------------------------------- generate_pac_crate
\* LoopRuns if a task ran as soon as it is created
LoopRuns_eager ==
  command = "pacs-gen" /\ main_pc \in {"enumerate", "gather", "raised"}

\* the event loop is running callbacks: the main coroutine is suspended in
\* gather, or has been resumed with the exception and asyncio.run has not yet
\* cancelled the remaining tasks
LoopRuns == command = "pacs-gen" /\ main_pc \in {"gather", "raised"}

\* out_dir_exists that looks at the family directory instead of out_dir
out_dir_exists_parent(tree, path) == \E d \in DOMAIN tree : d[1] = path[1]

\* out_dir_exists of a gate that never finds the directory (the check lost,
\* mkdir with exist_ok)
out_dir_exists_never(tree, path) == FALSE

\* out_dir_exists that takes an empty directory for a missing one
out_dir_exists_nonempty(tree, path) == path \in DOMAIN tree /\ tree[path].files # {}

\* out_dir.exists() under OUT_DIR_LOCK
out_dir_exists(tree, path) == path \in DOMAIN tree

\* mkdir that recreates the family's source tree around the new directory
mkdir_recreate(tree, path) == [d \in {path} |-> EmptyDir]

\* mkdir put off until the files are moved: the gate creates nothing
mkdir_deferred(tree, path) == tree

\* out_dir.mkdir(parents=True)
mkdir(tree, path) ==
  [d \in DOMAIN tree \cup {path} |-> IF d = path THEN EmptyDir ELSE tree[d]]

\* sem_locked off by one
sem_locked_off_by_one(value) == value < 0

\* Semaphore.locked(): no unit is available
sem_locked(value) == value <= 0

\* sem_release that gives no unit back
sem_release_lost(value, ok) == value

\* sem_release that is skipped when an exception unwinds the block
sem_release_on_success(value, ok) == IF ok THEN value + 1 ELSE value

\* Semaphore.release() in __aexit__ of `async with CRATE_GEN_SEM`, reached on
\* normal completion (ok) and when an exception unwinds the block (~ok)
sem_release(value, ok) == value + 1

\* gate_returns without the return statement: the task falls through
gate_returns_never(exists) == FALSE

\* `if out_dir.exists(): return` under OUT_DIR_LOCK: the coroutine returns
\* at the gate exactly when the directory exists
gate_returns(exists) == exists

\* first_tool when the patch step is left out
first_tool_generator(task) == "svd2rust"

\* first external process inside `async with CRATE_GEN_SEM`
first_tool(task) == IF task.patch # None THEN "svdtools" ELSE "svd2rust"

\* runs_before of a loop that runs the task created last first
runs_before_lifo(u, t) == u > t

\* the first step of task u runs before the first step of task t: the loop
\* runs the callbacks that create_task scheduled in the order of the calls
runs_before(u, t) == u < t

\* first segment of a task: the gate, then CRATE_GEN_SEM.acquire(); tasks
\* enter in creation order (the loop runs its ready callbacks first in, first
\* out).  Neither OUT_DIR_LOCK.acquire() nor the block under it suspends.
TaskStart(t) ==
  /\ LoopRuns
  /\ pc[t] = "start"
  /\ \A u \in Tasks : runs_before(u, t) => pc[u] # "start"
  /\ IF out_dir_exists(out_tree, out_dir(tasks[t]))
     THEN /\ gate' = [gate EXCEPT ![t] = "skip"]
          /\ UNCHANGED <<out_tree, mkdirs>>
     ELSE /\ gate' = [gate EXCEPT ![t] = "proceed"]
          /\ out_tree' = mkdir(out_tree, out_dir(tasks[t]))
          /\ mkdirs' = mkdirs \cup {<<t, out_dir(tasks[t])>>}
  /\ IF gate_returns(out_dir_exists(out_tree, out_dir(tasks[t])))
     THEN /\ pc' = [pc EXCEPT ![t] = "done"]
          /\ UNCHANGED <<sem, scratch, spawned>>
     ELSE IF sem_locked(sem)
             THEN /\ pc' = [pc EXCEPT ![t] = "wait_sem"]
                  /\ UNCHANGED <<sem, scratch, spawned>>
             ELSE /\ sem' = sem - 1
                  /\ scratch' = scratch \cup {t}
                  /\ spawned' = spawned \cup {<<t, first_tool(tasks[t])>>}
                  /\ pc' = [pc EXCEPT ![t] = first_tool(tasks[t])]
  /\ UNCHANGED <<test_vars, pub_vars, command, cpu_count, svd_dir, run, main_pc, fam_i, ent_i,
                 mcu_group, mcu_list, meta, tasks, generic_rs, written, readme,
                 gen_ok, prev_gen_ok, snapshot, failed_dirs, moved, exited>>

\* a task suspended in CRATE_GEN_SEM.acquire() is woken after a release,
\* takes the unit, creates its TemporaryDirectory and starts its first process
SemAcquire(t) ==
  /\ LoopRuns
  /\ pc[t] = "wait_sem"
  /\ \A u \in Tasks : pc[u] # "start"
  /\ ~sem_locked(sem)
  /\ sem' = sem - 1
  /\ scratch' = scratch \cup {t}
  /\ spawned' = spawned \cup {<<t, first_tool(tasks[t])>>}
  /\ pc' = [pc EXCEPT ![t] = first_tool(tasks[t])]
  /\ UNCHANGED <<test_vars, pub_vars, command, cpu_count, svd_dir, run, main_pc, fam_i, ent_i,
                 mcu_group, mcu_list, meta, tasks, gate, mkdirs, out_tree,
                 generic_rs, written, readme, gen_ok, prev_gen_ok, snapshot, failed_dirs, moved, exited>>

\* tmpdir_cleanup that is skipped when an exception unwinds the block
tmpdir_cleanup_on_success(dirs, t, ok) == IF ok THEN dirs \ {t} ELSE dirs

\* TemporaryDirectory.__exit__ of `with tempfile.TemporaryDirectory() as
\* tmpd`, reached on normal completion (ok) and when an exception unwinds
\* the block (~ok): the directory is removed
tmpdir_cleanup(dirs, t, ok) == dirs \ {t}

\* `assert pret.returncode == 0` fails or a file operation raises: the
\* exception leaves the TemporaryDirectory block (directory removed) and the
\* semaphore block
TaskRaise(t) ==
  /\ pc' = [pc EXCEPT ![t] = "failed"]
  /\ scratch' = tmpdir_cleanup(scratch, t, FALSE)
  /\ sem' = sem_release(sem, FALSE)

\* an awaited external process of task t has exited with status rc
ProcExited(t, tool) ==
  /\ LoopRuns
  /\ pc[t] = tool
  /\ \A u \in Tasks : pc[u] # "start"

\* _create_patched_svd after `svdtools patch` exited; then svd2rust is started
SvdtoolsExit(t) ==
  /\ ProcExited(t, "svdtools")
  /\ \E rc \in {0, 1} :
       /\ exited' = exited \cup {<<t, "svdtools", rc>>}
       /\ IF rc # 0
          THEN TaskRaise(t) /\ UNCHANGED <<spawned, tasks>>
          ELSE /\ tasks' = [tasks EXCEPT ![t].svd.path = <<"tmp", "patched">>]
               /\ spawned' = spawned \cup {<<t, "svd2rust">>}
               /\ pc' = [pc EXCEPT ![t] = "svd2rust"]
               /\ UNCHANGED <<scratch, sem>>
  /\ UNCHANGED <<test_vars, pub_vars, command, cpu_count, svd_dir, run, main_pc, fam_i, ent_i,
                 mcu_group, mcu_list, meta, gate, mkdirs, out_tree, generic_rs,
                 written, readme, gen_ok, prev_gen_ok, snapshot, failed_dirs, moved>>

\* svd2rust exited; then form is started on mod.rs
Svd2rustExit(t) ==
  /\ ProcExited(t, "svd2rust")
  /\ \E rc \in {0, 1} :
       /\ exited' = exited \cup {<<t, "svd2rust", rc>>}
       /\ IF rc # 0
          THEN TaskRaise(t) /\ UNCHANGED spawned
          ELSE /\ spawned' = spawned \cup {<<t, "form">>}
               /\ pc' = [pc EXCEPT ![t] = "form"]
               /\ UNCHANGED <<scratch, sem>>
  /\ UNCHANGED <<test_vars, pub_vars, command, cpu_count, svd_dir, run, main_pc, fam_i, ent_i,
                 mcu_group, mcu_list, meta, tasks, gate, mkdirs, out_tree,
                 generic_rs, written, readme, gen_ok, prev_gen_ok, snapshot, failed_dirs, moved>>

\* files that form leaves in <tmpd>/src after lib.rs was renamed to mod.rs
FormFiles == {"mod.rs", "peripheral.rs"}

\* tree after shutil.move has put the files names into the directory path
move_into(tree, path, names) ==
  [d \in DOMAIN tree \cup {path} |->
     IF d = path
     THEN [(IF path \in DOMAIN tree THEN tree[path] ELSE EmptyDir)
             EXCEPT !.files = @ \cup names]
     ELSE tree[d]]

\* generic_rs_exists that never sees the file
generic_rs_exists_never(moves, family) == FALSE

\* main_lib.joinpath("generic.rs").exists()
generic_rs_exists(moves, family) == family \in DOMAIN moves

\* where the file operations after form can raise: nowhere, at the unlink
\* and rename of mod.rs and lib.rs, or in the loop that moves <tmpd>/src
MoveOutcomes == {"ok", "rename", "src"}

\* form exited; mod.rs is replaced by lib.rs; generic.rs, device.x and the
\* files of <tmpd>/src are moved into the output tree and rustfmt is started
\* on <out_dir>/mod.rs
FormExit(t) ==
  /\ ProcExited(t, "form")
  /\ \E rc \in {0, 1}, io \in MoveOutcomes :
       /\ exited' = exited \cup {<<t, "form", rc>>}
       /\ IF rc # 0 \/ io = "rename"
          THEN TaskRaise(t) /\ UNCHANGED <<spawned, out_tree, generic_rs, moved>>
          ELSE /\ IF generic_rs_exists(generic_rs, tasks[t].family)
                  THEN UNCHANGED <<generic_rs, moved>>
                  ELSE /\ generic_rs' =
                            [f \in DOMAIN generic_rs \cup {tasks[t].family} |->
                               IF f = tasks[t].family THEN t ELSE generic_rs[f]]
                       /\ moved' = moved \cup {<<t, tasks[t].family>>}
               /\ IF io = "src"
                  THEN /\ out_tree' = move_into(out_tree, out_dir(tasks[t]), {"device.x"})
                       /\ TaskRaise(t)
                       /\ UNCHANGED spawned
                  ELSE /\ out_tree' =
                            [move_into(out_tree, out_dir(tasks[t]),
                                       {"device.x"} \cup FormFiles)
                               EXCEPT ![out_dir(tasks[t])].src = tasks[t].svd.full_name,
                                      ![out_dir(tasks[t])].fmt = FALSE]
                       /\ spawned' = spawned \cup {<<t, "rustfmt">>}
                       /\ pc' = [pc EXCEPT ![t] = "rustfmt"]
                       /\ UNCHANGED <<scratch, sem>>
  /\ UNCHANGED <<test_vars, pub_vars, command, cpu_count, svd_dir, run, main_pc, fam_i, ent_i,
                 mcu_group, mcu_list, meta, tasks, gate, mkdirs, written, readme,
                 gen_ok, prev_gen_ok, snapshot, failed_dirs>>

\* rustfmt exited; on status 0 the task returns, leaving both blocks
RustfmtExit(t) ==
  /\ ProcExited(t, "rustfmt")
  /\ \E rc \in {0, 1} :
       /\ exited' = exited \cup {<<t, "rustfmt", rc>>}
       /\ IF rc # 0
          THEN TaskRaise(t) /\ UNCHANGED out_tree
          ELSE /\ out_tree' = [out_tree EXCEPT ![out_dir(tasks[t])].fmt = TRUE]
               /\ pc' = [pc EXCEPT ![t] = "done"]
               /\ scratch' = tmpdir_cleanup(scratch, t, TRUE)
               /\ sem' = sem_release(sem, TRUE)
  /\ UNCHANGED <<test_vars, pub_vars, command, cpu_count, svd_dir, run, main_pc, fam_i, ent_i,
                 mcu_group, mcu_list, meta, tasks, gate, mkdirs, spawned,
                 generic_rs, written, readme, gen_ok, prev_gen_ok, snapshot, failed_dirs, moved>>


\* ---------------------------------------------------------------- fan-in
\* gather_result of gather(*tasks, return_exceptions=True)
gather_return_exceptions(pcs) == \A t \in DOMAIN pcs : pcs[t] \in Finished

\* gather_result of asyncio.wait(tasks, return_when=FIRST_COMPLETED)
gather_first_completed(pcs) == pcs = <<>> \/ \E t \in DOMAIN pcs : pcs[t] = "done"

\* the future of gather(*tasks) has a result: every task returned normally
gather_result(pcs) == \A t \in DOMAIN pcs : pcs[t] = "done"

\* gather: every task has returned, generate_mcu_family_crates returns meta
GatherReturn ==
  /\ command = "pacs-gen"
  /\ main_pc = "gather"
  /\ gather_result(pc)
  /\ main_pc' = "writing"
  /\ gen_ok' = TRUE
  /\ UNCHANGED <<test_vars, pub_vars, command, cpu_count, svd_dir, run, fam_i, ent_i, mcu_group,
                 mcu_list, meta, tasks, pc, gate, sem, scratch, spawned, mkdirs,
                 out_tree, generic_rs, written, readme, prev_gen_ok, snapshot, failed_dirs, moved, exited>>

\* gather: the first exception of a task is raised in the awaiting coroutine;
\* it leaves generate_mcu_family_crates and run_pacs_generation
GatherRaise ==
  /\ command = "pacs-gen"
  /\ main_pc = "gather"
  /\ \E t \in Tasks : pc[t] = "failed"
  /\ main_pc' = "raised"
  /\ UNCHANGED <<test_vars, pub_vars, command, cpu_count, svd_dir, run, fam_i, ent_i, mcu_group,
                 mcu_list, meta, tasks, pc, gate, sem, scratch, spawned, mkdirs,
                 out_tree, generic_rs, written, readme, gen_ok, prev_gen_ok,
                 snapshot, failed_dirs, moved, exited>>

\* tasks that hold a unit of CRATE_GEN_SEM and a TemporaryDirectory
Holding == {t \in Tasks : pc[t] \in InProcess}

RECURSIVE release_all(_, _)
release_all(value, n) ==
  IF n = 0 THEN value ELSE release_all(sem_release(value, FALSE), n - 1)

\* asyncio.run (main, line 922) cancels every task that is still pending
\* when the main coroutine has raised: CancelledError is thrown into each at
\* its suspension point and unwinds its with-blocks
CancelAll ==
  /\ command = "pacs-gen"
  /\ main_pc = "raised"
  /\ main_pc' = "aborted"
  /\ pc' = [t \in Tasks |-> IF pc[t] \in Finished THEN pc[t] ELSE "cancelled"]
  /\ scratch' = scratch \ Holding
  /\ sem' = release_all(sem, Cardinality(Holding))
  /\ UNCHANGED <<test_vars, pub_vars, command, cpu_count, svd_dir, run, fam_i, ent_i, mcu_group,
                 mcu_list, meta, tasks, gate, spawned, mkdirs, out_tree,
                 generic_rs, written, readme, gen_ok, prev_gen_ok, snapshot, failed_dirs, moved, exited>>

\* one iteration of `for mcu_meta in mcu_list_meta` in run_pacs_generation:
\* get_mcu_family asserts the efm32 name, mcu_info[...] needs the family
WriteCrate ==
  /\ command = "pacs-gen"
  /\ main_pc = "writing"
  /\ Len(written) < Len(meta)
  /\ LET m == meta[Len(written) + 1]
     IN IF get_mcu_family_ok(m.family) /\ get_mcu_family(m.family) \in McuToml
        THEN written' = Append(written, m.family) /\ UNCHANGED main_pc
        ELSE main_pc' = "aborted" /\ UNCHANGED written
  /\ UNCHANGED <<test_vars, pub_vars, command, cpu_count, svd_dir, run, fam_i, ent_i, mcu_group,
                 mcu_list, meta, tasks, pc, gate, sem, scratch, spawned, mkdirs,
                 out_tree, generic_rs, readme, gen_ok, prev_gen_ok, snapshot, failed_dirs, moved, exited>>

\* _write_repo_readme after the loop; run_pacs_generation returns
WriteReadme ==
  /\ command = "pacs-gen"
  /\ main_pc = "writing"
  /\ Len(written) = Len(meta)
  /\ readme' = TRUE
  /\ main_pc' = "done"
  /\ UNCHANGED <<test_vars, pub_vars, command, cpu_count, svd_dir, run, fam_i, ent_i, mcu_group,
                 mcu_list, meta, tasks, pc, gate, sem, scratch, spawned, mkdirs,
                 out_tree, generic_rs, written, gen_ok, prev_gen_ok, snapshot, failed_dirs, moved, exited>>

\* the tool is started again on the same input and the same output tree: a
\* new process, so fresh module state, and the disk as the last run left it
Rerun ==
  /\ command = "pacs-gen"
  /\ main_pc \in {"done", "aborted"}
  /\ run < MaxRuns
  /\ run' = run + 1
  /\ main_pc' = "version"
  /\ fam_i' = 1
  /\ ent_i' = 1
  /\ mcu_group' = {}
  /\ mcu_list' = <<>>
  /\ meta' = <<>>
  /\ tasks' = <<>>
  /\ pc' = <<>>
  /\ gate' = <<>>
  /\ sem' = cpu_count
  /\ scratch' = {}
  /\ spawned' = {}
  /\ mkdirs' = {}
  /\ written' = <<>>
  /\ readme' = FALSE
  /\ gen_ok' = FALSE
  /\ prev_gen_ok' = gen_ok
  /\ snapshot' = out_tree
  /\ failed_dirs' = failed_dirs \cup {out_dir(tasks[t]) : t \in {u \in Tasks : pc[u] = "failed"}}
  /\ moved' = {}
  /\ exited' = {}
  /\ UNCHANGED <<test_vars, pub_vars, command, cpu_count, svd_dir, out_tree, generic_rs>>

GenNext ==
  \/ SvdVersion
  \/ SkipNonDir
  \/ EnumerateEntry
  \/ FinalizeFamily
  \/ AwaitGather
  \/ \E t \in Tasks : TaskStart(t)
  \/ \E t \in Tasks : SemAcquire(t)
  \/ \E t \in Tasks : SvdtoolsExit(t)
  \/ \E t \in Tasks : Svd2rustExit(t)
  \/ \E t \in Tasks : FormExit(t)
  \/ \E t \in Tasks : RustfmtExit(t)
  \/ GatherReturn
  \/ GatherRaise
  \/ CancelAll
  \/ WriteCrate
  \/ WriteReadme
  \/ Rerun
\* ---------------------------------------------------------------- output tree
MaxPkgs == 3

Pkg(name, features) == [name |-> name, features |-> features]

rt == <<"r", "t">>
efm32gg11b == <<"e", "f", "m", "3", "2", "g", "g", "1", "1", "b">>

\* generated packages, each with the keys of [features] of its Cargo.toml
PkgPool ==
  << Pkg(efm32gg, <<rt, efm32gg, efm32gg11b>>),
     Pkg(efm32g, <<efm32g, rt>>),
     Pkg(efm32ga, <<rt>>),
     Pkg(efm32gb, <<efm32gb>>),
     Pkg(efm32gm, <<efm32gm>>) >>

\* output trees for `test` and `publish`; one holds a directory whose name is
\* no efm32 name and one a package that mcu.toml does not describe
PacsDirs ==
  {SubSeq(PkgPool, 1, n) : n \in 0..MaxPkgs}
  \cup {<<PkgPool[2], Pkg(<<"x">>, <<rt>>)>>, <<PkgPool[5], PkgPool[2]>>}

Excludes == {{}, {efm32gg}, {efm32g}, {<<"x">>, efm32ga}}

\* str(p.resolve()) of the Cargo.toml of a package
CargoToml(name) ==
  <<"/">> \o name \o <<"/", "C", "a", "r", "g", "o", ".", "t", "o", "m", "l">>

\* any(ex in str(p.resolve()) for ex in exclude_dirs)
Excluded(name, excl) == \E ex \in excl : Contains(CargoToml(name), ex)

\* get_mcu_family asserts the name, get_target_arch needs the mcu.toml keys
TargetKnown(name) ==
  get_mcu_family_ok(name) /\ get_mcu_family(name) \in McuToml

\* SelectIdx without the exclusion test: every package gets a task
SelectIdx_all(dir, excl, i) == [k \in 1..Len(dir) |-> k]

RECURSIVE SelectIdx(_, _, _)
\* indices i..Len(dir) of the packages that are not excluded, in order
SelectIdx(dir, excl, i) ==
  IF i > Len(dir) THEN <<>>
  ELSE (IF Excluded(dir[i].name, excl) THEN <<>> ELSE <<i>>)
       \o SelectIdx(dir, excl, i + 1)

RECURSIVE crate_mcu_features(_)
\* filter(lambda x: x.startswith("efm32"), features)
crate_mcu_features(features) ==
  IF features = <<>> THEN <<>>
  ELSE (IF StartsWith(Head(features), <<"e", "f", "m", "3", "2">>)
        THEN <<Head(features)>> ELSE <<>>)
       \o crate_mcu_features(Tail(features))

IdleGen ==
  /\ cpu_count = 1 /\ svd_dir = <<>> /\ run = 1 /\ main_pc = "idle"
  /\ fam_i = 1 /\ ent_i = 1 /\ mcu_group = {} /\ mcu_list = <<>> /\ meta = <<>>
  /\ tasks = <<>> /\ pc = <<>> /\ gate = <<>> /\ sem = 1 /\ scratch = {}
  /\ spawned = {} /\ mkdirs = {} /\ out_tree = <<>> /\ generic_rs = <<>>
  /\ written = <<>> /\ readme = FALSE /\ gen_ok = FALSE /\ prev_gen_ok = FALSE
  /\ snapshot = <<>> /\ failed_dirs = {} /\ moved = {}
  /\ exited = {}

IdleTest ==
  /\ t_main = "idle" /\ t_tasks = <<>> /\ t_pc = <<>> /\ t_feat = <<>>
  /\ t_log = <<>>

IdlePub == is_dry_run = FALSE /\ p_i = 1 /\ p_pc = "idle" /\ p_log = <<>>

\* ---------------------------------------------------------------- test
TestInit ==
  /\ pacs_dir \in PacsDirs
  /\ exclude \in Excludes
  /\ t_main = "create"
  /\ t_tasks = <<>>
  /\ t_pc = <<>>
  /\ t_feat = <<>>
  /\ t_log = <<>>

CheckTasks == 1..Len(t_tasks)

\* device features of the package of task k
Features(k) == crate_mcu_features(pacs_dir[t_tasks[k]].features)

\* run_pacs_test up to `await asyncio.gather(*tasks)`: one task per package
\* that matches no exclusion entry
CreateCheckTasks ==
  /\ command = "test"
  /\ t_main = "create"
  /\ t_tasks' = SelectIdx(pacs_dir, exclude, 1)
  /\ t_pc' = [k \in 1..Len(t_tasks') |-> "start"]
  /\ t_feat' = [k \in 1..Len(t_tasks') |-> 0]
  /\ t_log' = [k \in 1..Len(t_tasks') |-> <<>>]
  /\ t_main' = "gather"
  /\ UNCHANGED <<gen_vars, pub_vars, pacs_dir, exclude>>

TestLoopRuns == command = "test" /\ t_main \in {"gather", "raised"}

\* _cargo_check up to its first process: the lookups, then `cargo check`
\* for the first device feature (none: the loop body never runs)
CheckStart(k) ==
  /\ TestLoopRuns
  /\ t_pc[k] = "start"
  /\ \A u \in 1..(k - 1) : t_pc[u] # "start"
  /\ IF ~TargetKnown(pacs_dir[t_tasks[k]].name)
     THEN t_pc' = [t_pc EXCEPT ![k] = "failed"] /\ UNCHANGED <<t_feat, t_log>>
     ELSE IF Features(k) = <<>>
     THEN t_pc' = [t_pc EXCEPT ![k] = "done"] /\ UNCHANGED <<t_feat, t_log>>
     ELSE /\ t_pc' = [t_pc EXCEPT ![k] = "check"]
          /\ t_feat' = [t_feat EXCEPT ![k] = 1]
          /\ t_log' = [t_log EXCEPT ![k] = Append(@, <<"check", Features(k)[1]>>)]
  /\ UNCHANGED <<gen_vars, pub_vars, pacs_dir, exclude, t_main, t_tasks>>

\* returncode_ok without the assert
returncode_ignored(rc) == TRUE

\* `assert pret.returncode == 0` of _cargo_check
returncode_ok(rc) == rc = 0

\* `cargo check` exited: assert status 0, then `cargo clean` is started
CheckExit(k) ==
  /\ TestLoopRuns
  /\ t_pc[k] = "check"
  /\ \A u \in CheckTasks : t_pc[u] # "start"
  /\ \E rc \in {0, 1} :
       IF ~returncode_ok(rc)
       THEN /\ t_pc' = [t_pc EXCEPT ![k] = "failed"]
            /\ t_log' = [t_log EXCEPT ![k] = Append(@, <<"exit", rc>>)]
       ELSE /\ t_pc' = [t_pc EXCEPT ![k] = "clean"]
            /\ t_log' = [t_log EXCEPT ![k] = @ \o << <<"exit", rc>>, <<"clean">> >>]
  /\ UNCHANGED <<gen_vars, pub_vars, pacs_dir, exclude, t_main, t_tasks, t_feat>>

\* `cargo clean` exited: assert status 0, then the next feature or return
CleanExit(k) ==
  /\ TestLoopRuns
  /\ t_pc[k] = "clean"
  /\ \A u \in CheckTasks : t_pc[u] # "start"
  /\ \E rc \in {0, 1} :
       IF ~returncode_ok(rc)
       THEN /\ t_pc' = [t_pc EXCEPT ![k] = "failed"]
            /\ t_log' = [t_log EXCEPT ![k] = Append(@, <<"exit", rc>>)]
            /\ UNCHANGED t_feat
       ELSE IF t_feat[k] = Len(Features(k))
       THEN /\ t_pc' = [t_pc EXCEPT ![k] = "done"]
            /\ t_log' = [t_log EXCEPT ![k] = Append(@, <<"exit", rc>>)]
            /\ UNCHANGED t_feat
       ELSE /\ t_pc' = [t_pc EXCEPT ![k] = "check"]
            /\ t_feat' = [t_feat EXCEPT ![k] = @ + 1]
            /\ t_log' = [t_log EXCEPT ![k] =
                           @ \o << <<"exit", rc>>,
                                   <<"check", Features(k)[t_feat[k] + 1]>> >>]
  /\ UNCHANGED <<gen_vars, pub_vars, pacs_dir, exclude, t_main, t_tasks>>

\* gather in run_pacs_test: every task has returned
TestGatherReturn ==
  /\ command = "test"
  /\ t_main = "gather"
  /\ \A k \in CheckTasks : t_pc[k] = "done"
  /\ t_main' = "done"
  /\ UNCHANGED <<gen_vars, pub_vars, pacs_dir, exclude, t_tasks, t_pc, t_feat, t_log>>

\* gather in run_pacs_test: the first exception of a task is raised
TestGatherRaise ==
  /\ command = "test"
  /\ t_main = "gather"
  /\ \E k \in CheckTasks : t_pc[k] = "failed"
  /\ t_main' = "raised"
  /\ UNCHANGED <<gen_vars, pub_vars, pacs_dir, exclude, t_tasks, t_pc, t_feat, t_log>>

\* asyncio.run cancels the tasks that are still pending
TestCancelAll ==
  /\ command = "test"
  /\ t_main = "raised"
  /\ t_main' = "aborted"
  /\ t_pc' = [k \in CheckTasks |-> IF t_pc[k] \in Finished THEN t_pc[k] ELSE "cancelled"]
  /\ UNCHANGED <<gen_vars, pub_vars, pacs_dir, exclude, t_tasks, t_feat, t_log>>

TestNext ==
  \/ CreateCheckTasks
  \/ \E k \in CheckTasks : CheckStart(k)
  \/ \E k \in CheckTasks : CheckExit(k)
  \/ \E k \in CheckTasks : CleanExit(k)
  \/ TestGatherReturn
  \/ TestGatherRaise
  \/ TestCancelAll


\* ---------------------------------------------------------------- publish
PubInit ==
  /\ pacs_dir \in PacsDirs
  /\ exclude \in Excludes
  /\ is_dry_run \in BOOLEAN
  /\ p_i = 1
  /\ p_pc = "loop"
  /\ p_log = <<>>

\* asyncio.sleep argument in run_publish
delay_minutes == 5 * 60

\* cmd of _publish_crate, without the target
publish_cmd(dry) == IF dry THEN "publish --dry-run" ELSE "publish"

\* run_publish sleeping after every package, dry run or not
after_publish_always_sleep(dry) == "sleep"

\* run_publish going on to the next package at once
after_publish_never_sleeps(dry) == "loop"

\* what run_publish does after `await _publish_crate(...)` has returned
after_publish(dry) == IF ~dry THEN "sleep" ELSE "loop"

\* one iteration of `for p in pacs_dir.rglob("Cargo.toml")` for an excluded package
PublishSkip ==
  /\ command = "publish"
  /\ p_pc = "loop"
  /\ p_i <= Len(pacs_dir)
  /\ Excluded(pacs_dir[p_i].name, exclude)
  /\ p_i' = p_i + 1
  /\ UNCHANGED <<gen_vars, test_vars, is_dry_run, p_pc, p_log>>

\* an eligible package: _publish_crate up to its first process (the lookups
\* raise for an unknown name), `cargo clean`
PublishBegin ==
  /\ command = "publish"
  /\ p_pc = "loop"
  /\ p_i <= Len(pacs_dir)
  /\ ~Excluded(pacs_dir[p_i].name, exclude)
  /\ IF TargetKnown(pacs_dir[p_i].name)
     THEN /\ p_pc' = "clean1"
          /\ p_log' = Append(p_log, <<"clean", p_i>>)
     ELSE p_pc' = "failed" /\ UNCHANGED p_log
  /\ UNCHANGED <<gen_vars, test_vars, is_dry_run, p_i>>

\* the first `cargo clean` exited; its status is not looked at; `cargo
\* publish` is started
Clean1Exit ==
  /\ command = "publish"
  /\ p_pc = "clean1"
  /\ \E rc \in {0, 1} :
       /\ p_pc' = "publish"
       /\ p_log' = p_log \o << <<"exit", rc>>, <<publish_cmd(is_dry_run), p_i>> >>
  /\ UNCHANGED <<gen_vars, test_vars, is_dry_run, p_i>>

\* `cargo publish` exited: assert status 0, then `cargo clean`
PublishExit ==
  /\ command = "publish"
  /\ p_pc = "publish"
  /\ \E rc \in {0, 1} :
       IF rc # 0
       THEN p_pc' = "failed" /\ p_log' = Append(p_log, <<"exit", rc>>)
       ELSE p_pc' = "clean2" /\ p_log' = p_log \o << <<"exit", rc>>, <<"clean", p_i>> >>
  /\ UNCHANGED <<gen_vars, test_vars, is_dry_run, p_i>>

\* the second `cargo clean` exited: assert status 0, _publish_crate returns;
\* without dry run run_publish then awaits asyncio.sleep
Clean2Exit ==
  /\ command = "publish"
  /\ p_pc = "clean2"
  /\ \E rc \in {0, 1} :
       IF rc # 0
       THEN p_pc' = "failed" /\ p_log' = Append(p_log, <<"exit", rc>>) /\ UNCHANGED p_i
       ELSE /\ p_pc' = after_publish(is_dry_run)
            /\ IF after_publish(is_dry_run) = "sleep"
               THEN /\ p_log' = p_log \o << <<"exit", rc>>, <<"sleep", delay_minutes>> >>
                    /\ UNCHANGED p_i
               ELSE /\ p_log' = Append(p_log, <<"exit", rc>>)
                    /\ p_i' = p_i + 1
  /\ UNCHANGED <<gen_vars, test_vars, is_dry_run>>

\* asyncio.sleep(delay_minutes) has elapsed: next iteration
SleepDone ==
  /\ command = "publish"
  /\ p_pc = "sleep"
  /\ p_pc' = "loop"
  /\ p_i' = p_i + 1
  /\ UNCHANGED <<gen_vars, test_vars, is_dry_run, p_log>>

\* the loop of run_publish is exhausted: run_publish returns
PublishReturn ==
  /\ command = "publish"
  /\ p_pc = "loop"
  /\ p_i > Len(pacs_dir)
  /\ p_pc' = "done"
  /\ UNCHANGED <<gen_vars, test_vars, is_dry_run, p_i, p_log>>

PubNext ==
  \/ PublishSkip
  \/ PublishBegin
  \/ Clean1Exit
  \/ PublishExit
  \/ Clean2Exit
  \/ SleepDone
  \/ PublishReturn

\* ---------------------------------------------------------------- specifications
vars == <<gen_vars, test_vars, pub_vars>>

\* python tools.py pacs-gen
Init ==
  /\ command = "pacs-gen"
  /\ GenInit
  /\ pacs_dir = <<>> /\ exclude = {}
  /\ IdleTest
  /\ IdlePub

Next == GenNext

Spec == Init /\ [][Next]_vars

\* ---------------------------------------------------------------- fairness
\* a step of one invocation of the program: everything but a new invocation
\* by the user
GenStep ==
  \/ SvdVersion
  \/ SkipNonDir
  \/ EnumerateEntry
  \/ FinalizeFamily
  \/ AwaitGather
  \/ \E t \in Tasks : TaskStart(t)
  \/ \E t \in Tasks : SemAcquire(t)
  \/ \E t \in Tasks : SvdtoolsExit(t)
  \/ \E t \in Tasks : Svd2rustExit(t)
  \/ \E t \in Tasks : FormExit(t)
  \/ \E t \in Tasks : RustfmtExit(t)
  \/ GatherReturn
  \/ GatherRaise
  \/ CancelAll
  \/ WriteCrate
  \/ WriteReadme

\* the event loop runs every ready callback, a woken waiter of CRATE_GEN_SEM
\* gets its turn, every external process exits and asyncio.run finishes its
\* teardown: while the program can take a step it takes one
\* the input trees with three description files, and one with a single file
LiveDirs ==
  (SvdDirs \ StemDirs) \cup {<<Family(efm32g, <<Svd(<<"a", "f", "1">>)>>, {})>>}

InitLive == Init /\ svd_dir \in LiveDirs

SpecLive == InitLive /\ [][GenStep]_vars /\ WF_vars(GenStep)

\* python tools.py test
InitTest == command = "test" /\ IdleGen /\ TestInit /\ IdlePub

SpecTest == InitTest /\ [][TestNext]_vars

\* python tools.py publish
InitPublish == command = "publish" /\ IdleGen /\ IdleTest /\ PubInit

SpecPublish == InitPublish /\ [][PubNext]_vars


\* ---------------------------------------------------------------- properties
\* tasks with the same out_dir as task t
SameDir(t) == {u \in Tasks : out_dir(tasks[u]) = out_dir(tasks[t])}

\* C1: at most cpu_count tasks are between acquiring and releasing
\* CRATE_GEN_SEM, however many tasks were created.
C1_LimiterBound == Cardinality(Holding) <= cpu_count

\* more tasks than units: the section is full and a task waits for a unit
C1_Witness ==
  /\ Len(tasks) > cpu_count
  /\ Cardinality(Holding) = cpu_count
  /\ \E t \in Tasks : pc[t] = "wait_sem"

\* C2: every out_dir that appears in this run was created by exactly one
\* task; of the tasks with the same out_dir at most one proceeds and the
\* others skip; a task proceeds exactly if it found out_dir absent and
\* created it, and skips only if out_dir exists.
C2_GateExclusive ==
  /\ \A d \in DOMAIN out_tree \ DOMAIN snapshot :
       Cardinality({t \in Tasks : <<t, d>> \in mkdirs}) = 1
  /\ \A m \in mkdirs : m[2] = out_dir(tasks[m[1]])
  /\ \A t \in Tasks :
       /\ gate[t] = "proceed" <=> <<t, out_dir(tasks[t])>> \in mkdirs
       /\ gate[t] = "skip" => out_dir(tasks[t]) \in DOMAIN out_tree
       /\ gate[t] = "proceed" =>
            \A u \in SameDir(t) \ {t} : gate[u] \in {"none", "skip"}

\* two tasks with the same out_dir: one skipped while its creator is still
\* generating, and a task of another out_dir proceeded too
C2_Witness ==
  \E t, u, w \in Tasks :
    /\ u \in SameDir(t) \ {t}
    /\ gate[t] = "proceed" /\ pc[t] \in InProcess
    /\ gate[u] = "skip"
    /\ w \notin SameDir(t) /\ gate[w] = "proceed"

\* C3: in a run that follows a run whose generation phase completed, on the
\* same input and output tree, every task skips, no external process is
\* started, no directory is created and the device-group directories keep
\* the content the earlier run left.
C3_IdempotentRerun ==
  (run >= 2 /\ prev_gen_ok) =>
    /\ \A t \in Tasks : gate[t] \in {"none", "skip"}
    /\ spawned = {}
    /\ mkdirs = {}
    /\ out_tree = snapshot

\* the second run has completed with at least two tasks, all skipped
C3_Witness ==
  /\ run = 2 /\ prev_gen_ok /\ gen_ok
  /\ Len(tasks) >= 2
  /\ \A t \in Tasks : gate[t] = "skip"
  /\ DOMAIN out_tree # {}

\* C4: the units not available are exactly those of the tasks inside the
\* semaphore block, so once every task has terminated (returned, raised or
\* cancelled) all cpu_count units are available again.
C4_ReleaseOnEveryExit ==
  /\ sem = cpu_count - Cardinality(Holding)
  /\ (\A t \in Tasks : pc[t] \in Finished) => sem = cpu_count

\* the run was aborted: one task failed an assertion, another was cancelled
\* inside the block, and a third one had completed
C4_Witness ==
  /\ main_pc = "aborted"
  /\ \E t, u, w \in Tasks :
       /\ pc[t] = "failed"
       /\ pc[u] = "cancelled" /\ \E tool \in InProcess : <<u, tool>> \in spawned
       /\ pc[w] = "done" /\ gate[w] = "proceed"
  /\ sem = cpu_count

\* C5: once a task has failed, generate_mcu_family_crates never returns
\* metadata and neither _write_crate_lib_rs nor _write_repo_readme is called
\* in that run.
C5_FailFast ==
  (\E t \in Tasks : pc[t] = "failed") =>
    /\ ~gen_ok
    /\ main_pc \in {"gather", "raised", "aborted"}
    /\ written = <<>>
    /\ ~readme

\* the run ended aborted although another device group was generated
C5_Witness ==
  /\ main_pc = "aborted"
  /\ \E t, u \in Tasks :
       /\ pc[t] = "failed"
       /\ pc[u] = "done" /\ gate[u] = "proceed"
  /\ written = <<>>


\* the directory of svd_dir that became pac_family f
DirOf(f) == CHOOSE i \in 1..Len(svd_dir) : svd_dir[i].is_dir /\ Lower(svd_dir[i].name) = f

\* description files of the i-th entry of svd_dir
SvdEntries(i) ==
  {j \in 1..Len(svd_dir[i].entries) :
     EndsWith(svd_dir[i].entries[j].suffix, <<"s", "v", "d">>)}

\* tasks created for pac_family f
FamilyTasks(f) == {t \in Tasks : tasks[t].family = f}

\* C6 (as claimed): a family's PacMeta with supported_mcus = sorted(mcu_group)
\* exists only when every generation task of that family has completed.
C6_FinalizeAfterTasks ==
  \A i \in 1..Len(meta) : \A t \in FamilyTasks(meta[i].family) : pc[t] \in Finished

\* C6 (amended): a family's PacMeta is built when a task has been created for
\* each of the family's description files and before any task has run (no
\* task leaves "start" while the families are enumerated); the metadata list
\* is returned only after every task has returned.
C6_FinalizeAfterScheduling ==
  /\ \A i \in 1..Len(meta) :
       Cardinality(FamilyTasks(meta[i].family)) =
         Cardinality(SvdEntries(DirOf(meta[i].family)))
  /\ main_pc = "enumerate" => \A t \in Tasks : pc[t] = "start"
  /\ gen_ok => /\ Len(meta) = Cardinality({i \in 1..Len(svd_dir) : svd_dir[i].is_dir})
               /\ \A t \in Tasks : pc[t] = "done"

\* a family's PacMeta is there while its three tasks have not run yet
C6_Witness ==
  /\ Len(meta) >= 1
  /\ Cardinality(FamilyTasks(meta[1].family)) = 3
  /\ \A t \in FamilyTasks(meta[1].family) : pc[t] = "start"

\* the families whose description files give the groups a, a1, b
AbcDirs == {<<Family(efm32g, q, {})>> : q \in Orders(AbcFiles)}

\* C7: for the files with the device groups a, a1 and b, in every enumeration
\* order, supported_mcus is [a, a1, b].
C7_SortedGroups ==
  (svd_dir \in AbcDirs /\ Len(meta) >= 1) =>
    meta[1].supported_mcus = << <<"a">>, <<"a", "1">>, <<"b">> >>

\* enumeration order b, a1, a; the metadata was returned
C7_Witness ==
  /\ svd_dir \in AbcDirs
  /\ gen_ok
  /\ [i \in 1..3 |-> tasks[i].svd.generic_name] = << <<"b">>, <<"a", "1">>, <<"a">> >>
  /\ Len(meta) = 1 /\ Len(meta[1].supported_mcus) = 3

\* the example trees of family efm32gg, in every enumeration order
GgDirs == {<<Family(efm32gg, q, {})>> : q \in Orders(GgFiles)}

\* position of the description file with the given stem in the family
PosOf(stem) == CHOOSE j \in 1..Len(svd_dir[1].entries) : svd_dir[1].entries[j].stem = stem

\* C8 (as claimed): the example run yields device_groups [efm32gg, efm32gg11b],
\* groups_to_devices {efm32gg: [efm32gg-f32, efm32gg-f64], efm32gg11b:
\* [efm32gg11b-f32]} and two created output sub-directories.
C8_ExampleAsClaimed ==
  (svd_dir \in GgDirs /\ run = 1 /\ gen_ok) =>
    /\ meta[1].supported_mcus = <<efm32gg, efm32gg11b>>
    /\ meta[1].supported_mcus_full =
         [g \in {efm32gg, efm32gg11b} |->
            IF g = efm32gg THEN <<efm32gg_f32, efm32gg_f64>> ELSE <<efm32gg11b_f32>>]
    /\ Cardinality(mkdirs) = 2

efm32gg_dash == <<"e", "f", "m", "3", "2", "g", "g", "-">>
efm32gg11b_dash == <<"e", "f", "m", "3", "2", "g", "g", "1", "1", "b", "-">>

\* C8 (amended): the pattern f\d+.*$ leaves the hyphen, so the groups are
\* efm32gg- and efm32gg11b-: supported_mcus = [efm32gg-, efm32gg11b-],
\* supported_mcus_full = {efm32gg-: efm32gg-f32 and efm32gg-f64 in enumeration
\* order, efm32gg11b-: [efm32gg11b-f32]}; three tasks, two sub-directories
\* created, efm32gg/src/efm32gg- and efm32gg/src/efm32gg11b-.
C8_ExampleAmended ==
  (svd_dir \in GgDirs /\ run = 1 /\ gen_ok) =>
    /\ Len(meta) = 1
    /\ meta[1].family = efm32gg
    /\ meta[1].supported_mcus = <<efm32gg_dash, efm32gg11b_dash>>
    /\ meta[1].supported_mcus_full =
         [g \in {efm32gg_dash, efm32gg11b_dash} |->
            IF g = efm32gg11b_dash THEN <<efm32gg11b_f32>>
            ELSE IF PosOf(efm32gg_f32) < PosOf(efm32gg_f64)
                 THEN <<efm32gg_f32, efm32gg_f64>>
                 ELSE <<efm32gg_f64, efm32gg_f32>>]
    /\ Len(tasks) = 3
    /\ Cardinality(mkdirs) = 2
    /\ {m[2] : m \in mkdirs} = {<<efm32gg, efm32gg_dash>>, <<efm32gg, efm32gg11b_dash>>}
    /\ DOMAIN out_tree = {<<efm32gg, efm32gg_dash>>, <<efm32gg, efm32gg11b_dash>>}

\* the example in the order efm32gg-f32, efm32gg-f64, efm32gg11b-f32 on an
\* empty output tree; the metadata was returned
C8_Witness ==
  /\ svd_dir = <<Family(efm32gg, <<Svd(efm32gg_f32), Svd(efm32gg_f64), Svd(efm32gg11b_f32)>>, {})>>
  /\ run = 1 /\ gen_ok
  /\ gate = <<"proceed", "skip", "proceed">>


\* what _cargo_check starts and sees for the device features f1, f2 when
\* every process exits with status 0
FullLog(f1, f2) ==
  << <<"check", f1>>, <<"exit", 0>>, <<"clean">>, <<"exit", 0>>,
     <<"check", f2>>, <<"exit", 0>>, <<"clean">>, <<"exit", 0>> >>

\* C9: for a package with the device features f1, f2 the processes of
\* _cargo_check are check f1, clean, check f2, clean, each started only after
\* the one before has exited with status 0: a returned task has run exactly
\* these four; a failed task stopped at its first non-zero exit, so that a
\* failure for f1 leaves check f2 unstarted.
C9_CheckSequence ==
  \A k \in CheckTasks :
    Len(Features(k)) = 2 =>
      LET full == FullLog(Features(k)[1], Features(k)[2])
          log == t_log[k]
      IN /\ t_pc[k] = "start" => log = <<>>
         /\ t_pc[k] = "check" => \E n \in {1, 5} : log = SubSeq(full, 1, n)
         /\ t_pc[k] = "clean" => \E n \in {3, 7} : log = SubSeq(full, 1, n)
         /\ t_pc[k] = "done" => log = full
         /\ t_pc[k] = "failed" =>
              \E n \in {1, 3, 5, 7} : log = SubSeq(full, 1, n) \o << <<"exit", 1>> >>
         /\ t_pc[k] = "cancelled" =>
              \E n \in {0, 1, 3, 5, 7} : log = SubSeq(full, 1, n)

\* a package with two device features was checked completely while another
\* package was checked too
C9_Witness ==
  \E k, u \in CheckTasks :
    /\ k # u
    /\ Len(Features(k)) = 2 /\ t_pc[k] = "done" /\ Len(t_log[k]) = 8
    /\ t_log[u] # <<>>

\* packages that run_publish publishes
Eligible == {i \in 1..Len(pacs_dir) : ~Excluded(pacs_dir[i].name, exclude)}

\* number of asyncio.sleep calls of run_publish
Sleeps == Cardinality({i \in 1..Len(p_log) : p_log[i][1] = "sleep"})

\* C10: without dry run and with three eligible packages that all publish,
\* run_publish sleeps exactly twice, and not after the last publish.
C10_TwoDelays ==
  (~is_dry_run /\ Cardinality(Eligible) = 3 /\ p_pc = "done") =>
    /\ Sleeps = 2
    /\ p_log[Len(p_log)][1] # "sleep"

\* ---------------------------------------------------------------------
\* C11: with dry run enabled run_publish performs no delay, whatever the
\* number of eligible packages, and every `cargo publish` it starts carries
\* --dry-run.
PublishEntries == {n \in 1..Len(p_log) : p_log[n][1] \in {publish_cmd(TRUE), publish_cmd(FALSE)}}

C11_DryRunNoDelay ==
  (command = "publish" /\ is_dry_run) =>
     /\ Sleeps = 0
     /\ p_pc # "sleep"
     /\ \A n \in PublishEntries : p_log[n][1] = "publish --dry-run"

C11_Witness ==
  /\ command = "publish" /\ is_dry_run
  /\ p_pc = "done"
  /\ Cardinality(Eligible) = MaxPkgs
  /\ Cardinality(PublishEntries) = MaxPkgs

\* ---------------------------------------------------------------------
\* positions of p_log where a cargo process was started / was seen to exit
Starts == {n \in 1..Len(p_log) : p_log[n][1] \in {"clean", publish_cmd(TRUE), publish_cmd(FALSE)}}

Exits == {n \in 1..Len(p_log) : p_log[n][1] = "exit"}

\* processes started and not yet exited
InFlight == Cardinality(Starts) - Cardinality(Exits)

\* C12: run_publish is strictly sequential: at most one cargo process is in
\* flight; a process is started only when every process started before it
\* has exited; packages are handled in order; and without dry run the first
\* step of the next package is started only after the delay that follows the
\* previous package, a delay during which nothing is started.
C12_Sequential ==
  command = "publish" =>
     /\ InFlight \in {0, 1}
     /\ (InFlight = 1) <=> (p_pc \in {"clean1", "publish", "clean2"})
     /\ p_pc = "sleep" => p_log[Len(p_log)] = <<"sleep", delay_minutes>>
     /\ \A n \in Starts :
          /\ Cardinality({m \in Starts : m < n}) = Cardinality({m \in Exits : m < n})
          /\ \A m \in Starts : m < n => p_log[m][2] <= p_log[n][2]
          /\ (n > 1 /\ \A m \in Starts : m < n => p_log[m][2] < p_log[n][2]) =>
               /\ p_log[n][1] = "clean"
               /\ p_log[n - 1] = IF is_dry_run THEN <<"exit", 0>> ELSE <<"sleep", delay_minutes>>

C12_Witness ==
  /\ command = "publish" /\ ~is_dry_run
  /\ p_pc = "clean1"
  /\ p_i = MaxPkgs
  /\ Sleeps = 2
  /\ p_log[Len(p_log) - 1] = <<"sleep", delay_minutes>>

\* ---------------------------------------------------------------------
\* C13: a non-zero exit of any step of _publish_crate, the clean step before
\* the publish included, aborts run_publish: the non-zero exit is the last
\* thing that happens, no later step of this or of any other package is
\* started.
C13_FailureFatal ==
  command = "publish" =>
     \A n \in Exits : p_log[n][2] # 0 => (n = Len(p_log) /\ p_pc = "failed")

\* ---------------------------------------------------------------------
\* the naming convention: a memory-size part, f followed by digits
FollowsConvention(name) == FDigitStarts(name) # {}

\* p is a proper prefix of s
StrictPrefix(p, s) == Len(p) < Len(s) /\ SubSeq(s, 1, Len(p)) = p

\* C14: for every enumerated description file whose lower-cased stem has a
\* memory-size part, the generic_name of walk_svd_files is a proper prefix of
\* the full_name, and deriving again from the generic_name gives it back.
C14_GroupDerivation ==
  \A t \in Tasks :
     FollowsConvention(tasks[t].svd.full_name) =>
        /\ StrictPrefix(tasks[t].svd.generic_name, tasks[t].svd.full_name)
        /\ generic_name(tasks[t].svd.generic_name) = tasks[t].svd.generic_name

C14_Witness ==
  /\ svd_dir \in StemDirs
  /\ \E t \in Tasks :
        /\ tasks[t].svd.path = <<"a", "F", "1">>
        /\ tasks[t].svd.full_name = <<"a", "f", "1">>
        /\ tasks[t].svd.generic_name = <<"a">>

\* ---------------------------------------------------------------------
\* the elements of a sequence
Range(s) == {s[i] : i \in 1..Len(s)}

\* groups and lists agree: the keys of lists are exactly the groups, and
\* every list is a non-empty sequence of full names of enumerated files of
\* the family f that belong to the group
GroupsAgree(f, groups, lists) ==
  /\ DOMAIN lists = groups
  /\ \A g \in groups :
        /\ lists[g] # <<>>
        /\ \A n \in Range(lists[g]) :
              \E t \in FamilyTasks(f) :
                 tasks[t].svd.full_name = n /\ tasks[t].svd.generic_name = g

\* C15: at every point of the loop of generate_mcu_family_crates and in the
\* returned metadata, every group of mcu_group / supported_mcus has a
\* non-empty list of device names in mcu_list / supported_mcus_full, and
\* every key of the lists is one of the groups.
C15_FamilyMetadata ==
  /\ (main_pc = "enumerate" /\ fam_i <= Len(svd_dir)) =>
        GroupsAgree(Lower(svd_dir[fam_i].name), mcu_group, mcu_list)
  /\ \A i \in 1..Len(meta) :
        GroupsAgree(meta[i].family, Range(meta[i].supported_mcus),
                    meta[i].supported_mcus_full)

C15_Witness ==
  /\ main_pc = "writing"
  /\ Len(meta) = 1
  /\ Len(meta[1].supported_mcus) = 2
  /\ \E g \in DOMAIN meta[1].supported_mcus_full :
        Len(meta[1].supported_mcus_full[g]) = 2

\* ---------------------------------------------------------------------
\* C16: an out_dir that exists, created by the gate in this run or left by
\* an earlier run, exists after every step: no step of the generation, on
\* success, on failure or on cancellation, and no new run deletes it.
C16_DirsMonotonic == [][DOMAIN out_tree \subseteq DOMAIN out_tree']_vars

C16_Witness ==
  /\ run = 2
  /\ main_pc = "done"
  /\ \E d \in DOMAIN snapshot : d \in DOMAIN out_tree /\ ~out_tree[d].fmt
  /\ \E d \in DOMAIN snapshot : d \in DOMAIN out_tree /\ out_tree[d].fmt

\* ---------------------------------------------------------------------
\* C17: the step in which the gate of a task signals skip ends the task
\* successfully and changes neither the semaphore, nor the scratch
\* directories, nor the started processes, nor the output tree; a task whose
\* gate signalled skip is done, holds no scratch directory and has started
\* no process.
C17_SkipNoEffect ==
  [][ /\ \A t \in DOMAIN gate \cap DOMAIN gate' :
            (gate[t] = "none" /\ gate'[t] = "skip") =>
               /\ pc'[t] = "done"
               /\ sem' = sem
               /\ scratch' = scratch
               /\ spawned' = spawned
               /\ mkdirs' = mkdirs
               /\ out_tree' = out_tree
               /\ generic_rs' = generic_rs
      /\ \A t \in DOMAIN gate' :
            gate'[t] = "skip" =>
               /\ pc'[t] = "done"
               /\ t \notin scratch'
               /\ \A tool \in InProcess : <<t, tool>> \notin spawned' ]_vars

C17_Witness ==
  /\ run = 1
  /\ \E t, u \in Tasks :
        /\ gate[t] = "skip" /\ pc[t] = "done"
        /\ gate[u] = "proceed" /\ pc[u] = "wait_sem"
        /\ sem = 0
        /\ Cardinality(scratch) = cpu_count

\* ---------------------------------------------------------------------
\* C18: the out_dir of a task that failed after the gate stays on disk, also
\* when the run has aborted, and in every later run the gate of a task for
\* that out_dir signals skip: no process is started for it again.
C18_FailureMasked ==
  /\ \A t \in Tasks : pc[t] = "failed" => out_dir(tasks[t]) \in DOMAIN out_tree
  /\ failed_dirs \subseteq DOMAIN out_tree
  /\ \A t \in Tasks :
        out_dir(tasks[t]) \in failed_dirs =>
           /\ gate[t] \in {"none", "skip"}
           /\ pc[t] \in {"start", "done"}
           /\ \A tool \in InProcess : <<t, tool>> \notin spawned

C18_Witness ==
  /\ run = 2
  /\ main_pc = "done"
  /\ gen_ok
  /\ \E t \in Tasks :
        /\ out_dir(tasks[t]) \in failed_dirs
        /\ gate[t] = "skip"
        /\ out_tree[out_dir(tasks[t])].files = {}

\* ---------------------------------------------------------------------
\* C19: a TemporaryDirectory exists exactly for the tasks that are inside
\* the block: a task that has ended, normally, by a failed assert after the
\* generator, the reorganizer or the formatter, by a failed file operation
\* or by cancellation, has none, and none is left when the run is over.
C19_ScratchCleanup ==
  /\ scratch = Holding
  /\ \A t \in Tasks : pc[t] \in Finished => t \notin scratch
  /\ main_pc \in {"done", "aborted"} => scratch = {}

C19_Witness ==
  /\ main_pc = "aborted"
  /\ scratch = {}
  /\ \E t, u, v \in Tasks :
        /\ pc[t] = "failed" /\ <<t, "form">> \in spawned /\ <<t, "rustfmt">> \notin spawned
        /\ out_tree[out_dir(tasks[t])].files = {"device.x"}
        /\ pc[u] = "done" /\ <<u, "rustfmt">> \in spawned
        /\ pc[v] = "cancelled" /\ <<v, "svd2rust">> \in spawned

\* ---------------------------------------------------------------------
\* tasks that moved generic.rs into the source tree of pac_family f in this run
Movers(f) == {t \in Tasks : <<t, f>> \in moved}

\* task t passed the gate and got past the generic.rs check of line 370
ReachedMove(t) ==
  gate[t] = "proceed" /\ "device.x" \in out_tree[out_dir(tasks[t])].files

\* C20: generic.rs is moved once per family: no step moves it for a family
\* that already has it; at most one task of a family moves it in a run; on
\* a fresh output tree, as soon as tasks of a family are past the check,
\* exactly one of them, a task of that family, has moved it.  Check and move
\* are one step of the event loop, so no two tasks interleave in them.
C20_GenericMovedOnce ==
  [][ /\ \A f \in DOMAIN generic_rs : \A t \in DOMAIN tasks' :
            <<t, f>> \in moved' => <<t, f>> \in moved
      /\ \A t \in DOMAIN tasks' :
            Cardinality({u \in DOMAIN tasks' : <<u, tasks'[t].family>> \in moved'}) <= 1
      /\ \A m \in moved' :
            /\ tasks'[m[1]].family = m[2]
            /\ m[2] \in DOMAIN generic_rs' /\ generic_rs'[m[2]] = m[1]
      /\ snapshot' = <<>> =>
            \A t \in DOMAIN tasks' :
               ReachedMove(t)' =>
                  Cardinality({u \in DOMAIN tasks' :
                                 <<u, tasks'[t].family>> \in moved'}) = 1 ]_vars

C20_Witness ==
  /\ snapshot = <<>>
  /\ \E t, u \in Tasks :
        /\ t # u
        /\ tasks[t].family = tasks[u].family
        /\ ReachedMove(t) /\ ReachedMove(u)
        /\ Movers(tasks[t].family) = {u}
        /\ generic_rs[tasks[t].family] = u

\* ---------------------------------------------------------------------
\* C21: within a run, a step that changes the content of an existing out_dir
\* (device.x and the files of <tmpd>/src moved in, mod.rs formatted) is a
\* step of the one task whose gate said proceed for that directory; no
\* other task has proceeded for it, and only tasks that proceeded have
\* started rustfmt.
C21_ExclusiveOwner ==
  [][ /\ \A d \in DOMAIN out_tree \cap DOMAIN out_tree' :
            out_tree'[d] # out_tree[d] =>
               \E t \in DOMAIN tasks :
                  /\ pc'[t] # pc[t]
                  /\ out_dir(tasks[t]) = d
                  /\ gate[t] = "proceed"
                  /\ \A u \in DOMAIN tasks \ {t} :
                        out_dir(tasks[u]) = d => gate[u] # "proceed"
      /\ \A t \in DOMAIN tasks' :
            <<t, "rustfmt">> \in spawned' => gate'[t] = "proceed" ]_vars

C21_Witness ==
  \E t, u \in Tasks :
     /\ t # u
     /\ out_dir(tasks[t]) = out_dir(tasks[u])
     /\ gate[t] = "proceed" /\ gate[u] = "skip"
     /\ pc[t] = "done"
     /\ out_tree[out_dir(tasks[t])].fmt
     /\ out_tree[out_dir(tasks[t])].src = tasks[t].svd.full_name

\* ---------------------------------------------------------------------
\* number of description files in the entries i..Len(svd_dir) of svd_dir
RECURSIVE SvdCount(_)
SvdCount(i) ==
  IF i > Len(svd_dir) THEN 0
  ELSE (IF svd_dir[i].is_dir THEN Cardinality(SvdEntries(i)) ELSE 0) + SvdCount(i + 1)

\* C22: a task runs its first step only when the loop over all families
\* has created a task for every description file of every family, and
\* generate_mcu_family_crates has returned its metadata only when every one
\* of these tasks has completed.
C22_Barrier ==
  /\ (\E t \in Tasks : pc[t] # "start") =>
        /\ main_pc \notin {"version", "enumerate"}
        /\ Len(tasks) = SvdCount(1)
  /\ (gen_ok \/ main_pc \in {"writing", "done"}) =>
        /\ Len(tasks) = SvdCount(1)
        /\ Len(meta) = Cardinality({i \in 1..Len(svd_dir) : svd_dir[i].is_dir})
        /\ \A t \in Tasks : pc[t] = "done" /\ gate[t] \in {"proceed", "skip"}

C22_Witness ==
  /\ main_pc = "writing"
  /\ Len(meta) = 2
  /\ Len(tasks) = 3
  /\ \E t, u \in Tasks : tasks[t].family # tasks[u].family /\ gate[t] = "proceed" /\ gate[u] = "proceed"

\* ---------------------------------------------------------------------
\* the order of the external processes of generate_pac_crate
ToolOrder == <<"svdtools", "svd2rust", "form", "rustfmt">>

\* task t has started tool / has seen tool exit with status 0
Ran(t, tool) == <<t, tool>> \in spawned

ExitedOk(t, tool) == <<t, tool, 0>> \in exited

\* files that task t has moved into its out_dir
MovedFiles(t) ==
  IF gate[t] = "proceed" THEN out_tree[out_dir(tasks[t])].files ELSE {}

\* C23: a task that passed the gate runs svdtools (only with a patch),
\* svd2rust, form, the file moves and rustfmt in this order, each after the
\* process before it has exited with status 0, one process at a time: after
\* a non-zero exit of svd2rust, form is never started and nothing is moved;
\* after a non-zero exit of form nothing is moved.
C23_StepOrder ==
  \A t \in Tasks :
     /\ Ran(t, "svdtools") => tasks[t].patch # None
     /\ Ran(t, "svd2rust") => (tasks[t].patch # None => ExitedOk(t, "svdtools"))
     /\ Ran(t, "form") => ExitedOk(t, "svd2rust")
     /\ MovedFiles(t) # {} => ExitedOk(t, "form")
     /\ Ran(t, "rustfmt") => (ExitedOk(t, "form") /\ FormFiles \subseteq MovedFiles(t))
     /\ \A i \in 1..4 : \A rc \in {0, 1} :
           <<t, ToolOrder[i], rc>> \in exited => Ran(t, ToolOrder[i])
     /\ pc[t] # "cancelled" =>
           {tool \in InProcess : Ran(t, tool) /\ \A rc \in {0, 1} : <<t, tool, rc>> \notin exited}
              = {pc[t]} \cap InProcess
     /\ <<t, "svd2rust", 1>> \in exited =>
           (~Ran(t, "form") /\ ~Ran(t, "rustfmt") /\ MovedFiles(t) = {} /\ pc[t] = "failed")
     /\ <<t, "form", 1>> \in exited =>
           (~Ran(t, "rustfmt") /\ MovedFiles(t) = {} /\ pc[t] = "failed")

C23_Witness ==
  \E t, u \in Tasks :
     /\ tasks[t].patch # None
     /\ \A i \in 1..4 : ExitedOk(t, ToolOrder[i])
     /\ pc[t] = "done"
     /\ <<u, "svd2rust", 0>> \in exited
     /\ <<u, "form", 1>> \in exited
     /\ pc[u] = "failed"

\* ---------------------------------------------------------------------
\* how often name n is in the device list of group g of the PacMeta meta[i]
Listed(i, g, n) ==
  IF g \in DOMAIN meta[i].supported_mcus_full
  THEN Cardinality({k \in 1..Len(meta[i].supported_mcus_full[g]) :
                       meta[i].supported_mcus_full[g][k] = n})
  ELSE 0

\* the PacMeta of pac_family f
MetaOf(f) == CHOOSE i \in 1..Len(meta) : meta[i].family = f

\* C24 (as claimed): in the returned metadata the group of every enumerated
\* description file is among the groups of its family and its name is in
\* the group's device list exactly once, whether its task generated or
\* skipped.
C24_ListedExactlyOnce ==
  gen_ok =>
     \A t \in Tasks :
        /\ \E i \in 1..Len(meta) : meta[i].family = tasks[t].family
        /\ tasks[t].svd.generic_name \in Range(meta[MetaOf(tasks[t].family)].supported_mcus)
        /\ Listed(MetaOf(tasks[t].family), tasks[t].svd.generic_name,
                  tasks[t].svd.full_name) = 1

\* C24 (amended): ... its name is in the group's device list once for every
\* enumerated description file of the family that has this name, so exactly
\* once when no other file of the family has the same lower-cased stem.
C24_ListedPerFile ==
  gen_ok =>
     \A t \in Tasks :
        /\ \E i \in 1..Len(meta) : meta[i].family = tasks[t].family
        /\ tasks[t].svd.generic_name \in Range(meta[MetaOf(tasks[t].family)].supported_mcus)
        /\ Listed(MetaOf(tasks[t].family), tasks[t].svd.generic_name,
                  tasks[t].svd.full_name)
             = Cardinality({u \in FamilyTasks(tasks[t].family) :
                              tasks[u].svd.full_name = tasks[t].svd.full_name})

C24_Witness ==
  /\ gen_ok
  /\ \E t, u \in Tasks :
        /\ t # u
        /\ out_dir(tasks[t]) = out_dir(tasks[u])
        /\ gate[t] = "proceed" /\ gate[u] = "skip"
        /\ tasks[t].svd.full_name # tasks[u].svd.full_name
        /\ Listed(MetaOf(tasks[u].family), tasks[u].svd.generic_name,
                  tasks[u].svd.full_name) = 1
  /\ \E t, u \in Tasks :
        /\ t # u
        /\ tasks[t].svd.full_name = tasks[u].svd.full_name
        /\ Listed(MetaOf(tasks[u].family), tasks[u].svd.generic_name,
                  tasks[u].svd.full_name) = 2

\* ---------------------------------------------------------------------
\* cargo processes of _cargo_check task k that are started and not exited
CheckInFlight(k) ==
  Cardinality({n \in 1..Len(t_log[k]) : t_log[k][n][1] \in {"check", "clean"}})
  - Cardinality({n \in 1..Len(t_log[k]) : t_log[k][n][1] = "exit"})

\* C25: in run_pacs_test every package has at most one task and a task has
\* at most one cargo process in flight, while nothing bounds the tasks of
\* different packages; only packages that match no exclusion entry have a
\* task, so no process is ever started for an excluded package.
C25_TestShape ==
  command = "test" =>
     /\ \A k \in CheckTasks :
           /\ CheckInFlight(k) \in {0, 1}
           /\ t_pc[k] \in {"check", "clean"} => CheckInFlight(k) = 1
           /\ t_pc[k] \in {"start", "done", "failed"} => CheckInFlight(k) = 0
           /\ ~Excluded(pacs_dir[t_tasks[k]].name, exclude)
           /\ \A j \in CheckTasks : t_tasks[j] = t_tasks[k] => j = k
     /\ t_main # "create" =>
           \A i \in 1..Len(pacs_dir) :
              ~Excluded(pacs_dir[i].name, exclude) => \E k \in CheckTasks : t_tasks[k] = i

C25_Witness ==
  /\ command = "test"
  /\ \E i \in 1..Len(pacs_dir) : Excluded(pacs_dir[i].name, exclude)
  /\ \E k, j \in CheckTasks :
        /\ k # j
        /\ t_pc[k] = "check" /\ t_pc[j] = "check"
        /\ CheckInFlight(k) = 1 /\ CheckInFlight(j) = 1

\* ---------------------------------------------------------------------
\* every task of the run exists and has ended in one of the given ways
AllEnded(ways) ==
  /\ Len(tasks) = SvdCount(1)
  /\ \A t \in Tasks : pc[t] \in ways

\* C26 (as claimed): with fair scheduling and exiting processes, once the
\* main coroutine awaits the gather, every task ends as generated, skipped
\* or failed.
C26_AllRunToEnd ==
  (main_pc = "gather") ~> AllEnded({"done", "failed"})

\* C26 (amended): a task that is suspended (waiting for a unit or for a
\* process) is past the gate, so it holds no lock another task needs; with
\* fair scheduling and exiting processes the gather returns or raises, and
\* every task ends: generated, skipped, failed, or cancelled by the teardown
\* of asyncio.run after another task has failed.
C26_Termination ==
  /\ [](\A t \in Tasks : pc[t] \in InProcess \cup {"wait_sem"} => gate[t] = "proceed")
  /\ (main_pc = "gather") ~> (main_pc \in {"writing", "raised"})
  /\ (main_pc = "gather") ~> (main_pc \in {"writing", "aborted"} /\ AllEnded(Finished))

C26_Witness ==
  /\ main_pc = "aborted"
  /\ Len(tasks) > cpu_count
  /\ \E t, u \in Tasks :
        /\ pc[t] = "failed"
        /\ pc[u] = "cancelled" /\ \A tool \in InProcess : <<u, tool>> \notin spawned

\* ---------------------------------------------------------------------
\* task t passed the gate and was never admitted by CRATE_GEN_SEM
NeverAdmitted(t) ==
  gate[t] = "proceed" /\ \A tool \in InProcess : <<t, tool>> \notin spawned

\* C27: out_dir is created at the gate, before CRATE_GEN_SEM is requested:
\* the out_dir of a task that waits for a unit exists and is empty, and so
\* is, after the run was aborted, the out_dir of every task that was
\* cancelled before it was admitted.
C27_ClaimBeforeAdmission ==
  \A t \in Tasks :
     (pc[t] = "wait_sem" \/ (pc[t] = "cancelled" /\ NeverAdmitted(t))) =>
        /\ NeverAdmitted(t)
        /\ out_dir(tasks[t]) \in DOMAIN out_tree
        /\ out_tree[out_dir(tasks[t])] = EmptyDir

C27_Witness ==
  /\ main_pc = "aborted"
  /\ \E t, u \in Tasks :
        /\ pc[u] = "failed"
        /\ pc[t] = "cancelled" /\ NeverAdmitted(t)
        /\ out_dir(tasks[t]) # out_dir(tasks[u])
        /\ out_tree[out_dir(tasks[t])] = EmptyDir

\* ---------------------------------------------------------------------
\* C28: on a fresh output tree the task that proceeds through the gate of
\* an out_dir is the one created first for it, that is the description file
\* enumerated first, and what is generated into the out_dir comes from that
\* file: the winner is a function of the enumeration order alone.
C28_FirstWins ==
  snapshot = <<>> =>
     \A t \in Tasks :
        /\ gate[t] = "proceed" =>
              /\ \A u \in Tasks : out_dir(tasks[u]) = out_dir(tasks[t]) => t <= u
              /\ out_tree[out_dir(tasks[t])].src \in {None, tasks[t].svd.full_name}
        /\ gate[t] = "skip" =>
              \E u \in 1..(t - 1) :
                 out_dir(tasks[u]) = out_dir(tasks[t]) /\ gate[u] = "proceed"

C28_Witness ==
  /\ snapshot = <<>>
  /\ \E t, u \in Tasks :
        /\ t < u
        /\ out_dir(tasks[t]) = out_dir(tasks[u])
        /\ tasks[t].svd.full_name # tasks[u].svd.full_name
        /\ gate[t] = "proceed" /\ gate[u] = "skip"
        /\ out_tree[out_dir(tasks[t])].src = tasks[t].svd.full_name
        /\ out_tree[out_dir(tasks[t])].fmt

====
